---- MODULE Spec2Model ----
(***************************************************************************)
(* A state-machine model of GameCanvas (GameCanvas.ts, kept here as        *)
(* src/unnamed/part_010): the drawing registry with its per-drawing        *)
(* metadata, the requestAnimationFrame loop (run / tick / doDrawing /      *)
(* stop), the per-event-type handler chains and the canvas size; and of    *)
(* Sprite (src/src/Sprite.ts): image loading, the frame shown, the         *)
(* animation cursor and removeOnNextFrame.                                 *)
(*                                                                         *)
(* Array indices are 0-based, as in the source; At(s, i) reads slot i.     *)
(* A tick is stepped one forEach visit at a time, because a draw callback  *)
(* is user code that may call back into the public API before it returns.  *)
(* run() is called by top-level code or by an event handler; a draw        *)
(* callback re-entering run() (a tick nested in a tick) is not modelled.   *)
(***************************************************************************)
EXTENDS Integers, Sequences, FiniteSets, TLC

VARIABLES
    drawings,          \* this.drawings: the drawables, by index; may hold holes
    drawingMetadata,   \* this.drawingMetadata: one record per addDrawing call
    isRunning,         \* this.isRunning
    animationFrameId,  \* this.animationFrameId: undefined, or what became of the request it names
    pending,           \* how many animation-frame requests the host holds, not yet fired or cancelled
    now,               \* the host clock (performance.now(), the frame timestamp)
    tick,              \* the doDrawing call in progress, if any
    call,              \* the parameter bundle of the draw callback that is running
    handlers,          \* this.handlers: event type -> chain of handlers
    ev,                \* the event listener invocation in progress, if any
    evlog,             \* the handlers invoked for the latest event, with what they returned
    listeners,         \* event type -> number of native listeners added to the canvas
    hIssued,           \* history: event type -> the indices addHandler has returned
    canvas,            \* this.canvas: its width / height attributes and its on-screen size
    size,              \* this.width, this.height
    autoresize,        \* this.autoresize
    observers,         \* number of ResizeObservers observing the canvas
    roPending,         \* how many of them have a notification the host has not delivered
    ctor,              \* the constructor's arguments, and whether it has run
    nAdds,             \* history: number of addDrawing calls that returned
    issued,            \* history: the handles addDrawing has returned
    hist,              \* history: per handle, the timestamp of the first tick that dispatched it
                       \* (the first visit of doDrawing to get past the off check)
    calls,             \* history: number of calls user code has made so far: add /
                       \* remove / restore / replace, the remove closure, run, stop
    sprite,            \* a Sprite: its fields
    img,               \* sprite.image: whether it has loaded, and the frames on its sheet
    fx,                \* what the latest sprite.draw call did, in order
    ms,                \* history: the stepTimes of the draws made since the image
                       \* loaded, summed
    copy,              \* what the latest sprite.copy(newParams) call returned
    offTime,           \* history: per handle, how long it has been off since its
                       \* first dispatch
    stepSum,           \* history: per handle, the sum of the stepTime values its
                       \* dispatches were given
    gameState          \* GameInterface.gameState: "stopped", "running" or "paused"

vars == <<drawings, drawingMetadata, isRunning, animationFrameId, pending, now,
          tick, call, handlers, ev, evlog, listeners, hIssued, canvas, size,
          autoresize, observers, roPending, ctor, nAdds, issued, hist, calls,
          sprite, img, fx, ms, copy, offTime, stepSum, gameState>>

drawVars == <<drawings, drawingMetadata, isRunning, animationFrameId, pending, now,
              tick, call, nAdds, issued, hist, calls, offTime,
              stepSum, gameState>>

eventVars == <<handlers, ev, evlog, listeners, hIssued>>

sizeVars == <<canvas, size, autoresize, observers, roPending, ctor>>

spriteVars == <<sprite, img, fx, ms, copy>>

----------------------------------------------------------------------------
(* Bounds of the model. *)

\* drawings.length never exceeds MaxLen: handles are 0 .. MaxLen-1.
MaxLen == 2

\* The program makes at most MaxCalls calls of addDrawing, removeDrawing,
\* restoreDrawing, replaceDrawing, a remove closure, run and stop; how many
\* frames the host fires is not limited.
MaxCalls == 4

\* The host clock runs 0 .. MaxTime.
MaxTime == 2

\* At most MaxPending animation-frame requests are outstanding.
MaxPending == 2

\* At most MaxHandlers handlers are registered, over all event types, and
\* removeHandler is called with an index below MaxHandlers.
MaxHandlers == 2

\* Widths and heights range over 0 .. MaxSize.
MaxSize == 2

\* At most MaxObservers ResizeObservers are attached.
MaxObservers == 2

\* The stepTimes of the draws a program makes itself, on a loaded sprite, sum
\* to at most MaxMs milliseconds.
MaxMs == 300

----------------------------------------------------------------------------
(* Values. *)

\* What a caller may pass as a drawable: a function, an object with a draw
\* method, or (TypeScript's types are erased at run time) something that is
\* neither, such as a number.
Callable == {"fn", "obj"}

NotDrawable == "num"

Drawables == Callable \cup {NotDrawable}

\* An index of this.drawings that was never assigned (a sparse-array hole).
Hole == "hole"

\* undefined, for a timestamp.
NoTime == -1

\* Request ids are opaque and only ever handed back to cancelAnimationFrame,
\* so animationFrameId is kept as the fate of the request it names:
\* "undefined", "outstanding" (the host still holds it) or "fired"; and
\* pending counts the requests the host holds.

\* A fresh drawingMetadata entry: {}. off is read only for its truthiness
\* (if (md.off) return), so FALSE stands for undefined and for false alike.
EmptyMd == [off |-> FALSE, lastTime |-> NoTime, startTime |-> NoTime]

NoTick == [active |-> FALSE, ts |-> 0, len |-> 0, k |-> 0, incb |-> FALSE,
           src |-> "none", log |-> <<>>, on0 |-> {}]

NoCall == [h |-> -1, d |-> "none", ts |-> 0, elapsed |-> 0, stepTime |-> 0,
           first |-> FALSE, stale |-> FALSE]

\* Of the eight input event types setupHandlers registers, all handled by the
\* same listener code, two are modelled.
EventTypes == {"click", "keydown"}

\* Handlers a caller registers, and the () => {} that removeHandler stores.
HandlerFns == {"h1", "h2"}

Noop == "noop"

NoEvent == [active |-> FALSE, type |-> "none", pos |-> 0, inh |-> FALSE, n0 |-> 0]

At(s, i) == s[i + 1]

\* JavaScript truthiness of a number-or-undefined: undefined and 0 are falsy.
Truthy(t) == t # NoTime /\ t # 0

\* User code is running: top-level script when the host is idle, or the body
\* of the draw callback being dispatched.
UserCode == ~tick.active \/ tick.incb

----------------------------------------------------------------------------
(* doDrawing's arithmetic. *)

\* A step clock that restarts only when the handle was never dispatched.
StepTimeOf_Defined(md, ts) == IF md.lastTime # NoTime THEN ts - md.lastTime ELSE 0

StepTimeOf(md, ts) == IF Truthy(md.lastTime) THEN ts - md.lastTime ELSE 0

ElapsedOf_SinceOrigin(md, ts) == ts

ElapsedOf(md, ts) == IF ~Truthy(md.startTime) THEN 0 ELSE ts - md.startTime

StartTimeOf(md, ts) == IF ~Truthy(md.startTime) THEN ts ELSE md.startTime

\* Array.prototype.forEach reads the length of the array once, before its
\* first visit, and visits no index at or beyond it, whatever is appended to
\* the array (arr) by the callbacks it calls.
ForEachLength_Live(len, arr) == Len(arr)

ForEachLength(len, arr) == len

\* Array.prototype.forEach visits indices in ascending order: the k-th visit
\* (from 0) of an array whose length was len when forEach began is index k.
ForEachIndex_Reversed(k, len) == len - 1 - k

ForEachIndex(k, len) == k

----------------------------------------------------------------------------
(* The canvas element and the working size. *)

\* getAttribute("width") of a canvas with no width attribute: null.
NoAttr == -1

Sizes == 0 .. MaxSize

\* config.size when the caller passes none.
NoSize == [given |-> FALSE, width |-> 0, height |-> 0]

ConfigSizes == {NoSize} \cup [given : {TRUE}, width : Sizes, height : Sizes]

\* A canvas element: its width and height content attributes (canvas.width
\* and canvas.height reflect them: assigning the property sets the attribute)
\* and its on-screen client size.
Canvases == [attrW : {NoAttr} \cup Sizes, attrH : {NoAttr} \cup Sizes,
             clientW : Sizes, clientH : Sizes]

\* A canvas with no width / height attribute, laid out at 1 x 1.
PlainCanvas == [attrW |-> NoAttr, attrH |-> NoAttr, clientW |-> 1, clientH |-> 1]

\* new GameCanvas(canvas, {}).
NoConfig == [size |-> NoSize, autoresize |-> "undefined"]

\* setInitialCanvasSize(size) on canvas cnv: the working size and the canvas
\* it leaves. size?.width and getAttribute(...) are tested for truthiness.
SetInitialCanvasSize(sz, cnv) ==
    LET w == IF sz.given /\ sz.width # 0 THEN sz.width
             ELSE IF cnv.attrW # NoAttr THEN cnv.attrW
             ELSE cnv.clientW
        h == IF sz.given /\ sz.height # 0 THEN sz.height
             ELSE IF cnv.attrH # NoAttr THEN cnv.attrH
             ELSE cnv.clientH
    IN [size   |-> [width |-> w, height |-> h],
        canvas |-> [cnv EXCEPT
                      !.attrW = IF (sz.given /\ sz.width # 0) \/ cnv.attrW = NoAttr
                                THEN w ELSE @,
                      !.attrH = IF (sz.given /\ sz.height # 0) \/ cnv.attrH = NoAttr
                                THEN h ELSE @]]

\* config.autoresize ?? true
AutoresizeOf(cfg) == IF cfg.autoresize = "undefined" THEN TRUE ELSE cfg.autoresize = "true"

\* run(): !!(getAttribute("width") || getAttribute("height"))
HasFixedSize == canvas.attrW # NoAttr \/ canvas.attrH # NoAttr

\* getSize()
GetSize == [width |-> size.width, height |-> size.height]

\* What the ResizeObserver reports: the canvas's content rectangle.
ContentRect == [width |-> canvas.clientW, height |-> canvas.clientH]

----------------------------------------------------------------------------
(* Numbers. Sprite.frameAnimationIndex is a JavaScript number, an IEEE-754  *)
(* double, and draw() adds a quotient to it on every call; both operations  *)
(* round. A non-negative double is kept as its binary expansion in limbs of *)
(* LimbBits bits, lowest first: FracLimbs limbs below the binary point and  *)
(* one limb, the integer part, above it. At most Mantissa consecutive bits, *)
(* from the highest set one down, are non-zero.                             *)

\* Significant bits of a double.
Mantissa == 53

\* Bits to a limb.
LimbBits == 20

Base == 2 ^ LimbBits

\* Limbs kept below the binary point: 60 bits, enough for the exact sum of
\* two of the values that occur (the smallest quotient, 1/100, has its lowest
\* significant bit at 2^-59).
FracLimbs == 3

\* The last limb is the integer part.
Limbs == FracLimbs + 1

\* The double equal to a small non-negative integer.
DFromInt(n) == [i \in 1 .. FracLimbs |-> 0] \o <<n>>

\* Math.floor(x), as an integer.
DFloor(x) == x[Limbs]

\* x % n for a positive integer n: the remainder is exact, and has the
\* fraction of x.
DMod(x, n) == [x EXCEPT ![Limbs] = @ % n]

\* Exact addition from limb i up, with carry c.
RECURSIVE AddFrom(_, _, _, _)
AddFrom(a, b, i, c) ==
    LET t == a[i] + b[i] + c IN
    IF i = Limbs THEN <<t>> ELSE <<t % Base>> \o AddFrom(a, b, i + 1, t \div Base)

\* Number of bits of n: 0 for 0, 1 for 1, 2 for 2 and 3, ...
RECURSIVE BitLength(_)
BitLength(n) == IF n = 0 THEN 0 ELSE 1 + BitLength(n \div 2)

\* Bit positions count from 1, the lowest bit of limb 1.
RECURSIVE TopFrom(_, _)
TopFrom(x, i) ==
    IF i = 0 THEN 0
    ELSE IF x[i] # 0 THEN (i - 1) * LimbBits + BitLength(x[i])
    ELSE TopFrom(x, i - 1)

\* Position of the highest set bit, 0 for zero.
Top(x) == TopFrom(x, Limbs)

LimbOf(p) == (p - 1) \div LimbBits + 1

OffsetOf(p) == (p - 1) % LimbBits

BitAt(x, p) == (x[LimbOf(p)] \div (2 ^ OffsetOf(p))) % 2

\* Some bit of x below position p is set.
AnyBelow(x, p) ==
    \/ \E i \in 1 .. LimbOf(p) - 1 : x[i] # 0
    \/ x[LimbOf(p)] % (2 ^ OffsetOf(p)) # 0

\* x with the bits below position p cleared.
ClearBelow(x, p) ==
    [i \in 1 .. Limbs |->
        IF i < LimbOf(p) THEN 0
        ELSE IF i = LimbOf(p) THEN x[i] - (x[i] % (2 ^ OffsetOf(p)))
        ELSE x[i]]

\* The number with only the bit at position p set.
BitOnly(p) == [i \in 1 .. Limbs |-> IF i = LimbOf(p) THEN 2 ^ OffsetOf(p) ELSE 0]

\* Round to nearest, ties to even, keeping Mantissa significant bits; sticky
\* says that the exact value has non-zero bits below position 1. (Every
\* quotient that occurs is at least 2^-7, so that a value with a sticky rest
\* has bits to drop.)
RoundToDouble(x, sticky) ==
    LET l == Top(x) - (Mantissa - 1) IN
    IF l <= 1 THEN x
    ELSE LET st == sticky \/ AnyBelow(x, l - 1)
             up == BitAt(x, l - 1) = 1 /\ (st \/ BitAt(x, l) = 1)
         IN AddFrom(ClearBelow(x, l), IF up THEN BitOnly(l) ELSE DFromInt(0), 1, 0)

\* a + b
DAdd(a, b) == RoundToDouble(AddFrom(a, b, 1, 0), FALSE)

\* The limbs of r / d below the point from limb i down, for 0 <= r < d, and
\* last the remainder they leave.
RECURSIVE FracLimbsOf(_, _, _)
FracLimbsOf(r, d, i) ==
    IF i = 0 THEN <<r>>
    ELSE FracLimbsOf((r * Base) % d, d, i - 1) \o <<(r * Base) \div d>>

\* s / d for integers s >= 0 and d > 0
DDiv(s, d) ==
    LET q == FracLimbsOf(s % d, d, FracLimbs) IN
    RoundToDouble(SubSeq(q, 2, Limbs) \o <<s \div d>>, q[1] # 0)

----------------------------------------------------------------------------
(* Sprite values. *)

\* this.frames before the image has loaded: undefined.
NoFrames == -1

\* frameSequence not given: undefined. (An empty array is not modelled.)
NoSequence == <<>>

FrameSequences == {NoSequence, <<0, 1, 2>>, <<2, 0>>}

\* Frame rates whose frame duration 1000 / frameRate is a whole number of
\* milliseconds, so that the division in draw() is one of integers.
FrameRates == {10, 20}

\* config.frames when given; 0 stands for a parameter left out, which
\* if (frames) treats like 0.
FramesParams == {0, 2}

\* framesAcross * framesDown of the loaded sheet.
GridFrames == 4

\* config.frame
StartFrames == {0, 1}

\* The stepTime of a draw() call, in milliseconds.
StepTimes == {0, 30, 100, 300}

SpriteConfigs ==
    [frame : StartFrames, frames : FramesParams, animate : BOOLEAN,
     frameSequence : FrameSequences, frameRate : FrameRates, repeat : BOOLEAN,
     update : BOOLEAN]

\* The defaults of the constructor's destructuring, with no update callback;
\* but for frameRate, 24 by default and 20 here (see FrameRates).
DefaultSpriteConfig ==
    [frame |-> 0, frames |-> 0, animate |-> TRUE, frameSequence |-> NoSequence,
     frameRate |-> 20, repeat |-> TRUE, update |-> FALSE]

\* new Sprite(cfg): the fields the constructor assigns. cfg is kept for the
\* frames parameter, which the onload closure reads.
NewSprite(cfg) ==
    [ready |-> FALSE, frames |-> NoFrames, animate |-> cfg.animate,
     frameRate |-> cfg.frameRate,
     frameAnimationIndex |-> DFromInt(cfg.frame),
     frameSequence |-> cfg.frameSequence, update |-> cfg.update,
     repeat |-> cfg.repeat, removeOnNextFrame |-> FALSE, cfg |-> cfg]

\* get frame(), without the clamp of the repeat-false branches.
Frame_Unclamped(s) ==
    LET totalFrames == IF s.frames = NoFrames THEN 1 ELSE s.frames IN
    IF s.repeat
    THEN IF s.frameSequence # NoSequence
         THEN LET sequenceIndex == DMod(s.frameAnimationIndex, Len(s.frameSequence))
              IN DFromInt(At(s.frameSequence, DFloor(sequenceIndex)))
         ELSE DMod(s.frameAnimationIndex, totalFrames)
    ELSE IF s.frameSequence # NoSequence
         THEN LET k == DFloor(s.frameAnimationIndex) IN
              IF k < Len(s.frameSequence)
              THEN DFromInt(At(s.frameSequence, k))
              ELSE DFromInt(At(s.frameSequence, k % Len(s.frameSequence)))
         ELSE DFromInt(DFloor(s.frameAnimationIndex))

Min(a, b) == IF a < b THEN a ELSE b

\* get frame()
Frame(s) ==
    LET totalFrames == IF s.frames = NoFrames THEN 1 ELSE s.frames IN
    IF s.repeat
    THEN IF s.frameSequence # NoSequence
         THEN LET sequenceIndex == DMod(s.frameAnimationIndex, Len(s.frameSequence))
              IN DFromInt(At(s.frameSequence, DFloor(sequenceIndex)))
         ELSE DMod(s.frameAnimationIndex, totalFrames)
    ELSE IF s.frameSequence # NoSequence
         THEN DFromInt(At(s.frameSequence,
                          Min(DFloor(s.frameAnimationIndex), Len(s.frameSequence) - 1)))
         ELSE DFromInt(Min(DFloor(s.frameAnimationIndex), totalFrames - 1))

\* Math.floor(this.frame): the index of the frame that rowNum and colNum
\* locate on the sheet.
FrameShown(s) == DFloor(Frame(s))

\* One entry of fx. frame is the frame drawImage was given, -1 otherwise.
Fx(op, frame) == [op |-> op, frame |-> frame]

\* draw() that animates whether or not the image has loaded.
SpriteDraw_AnimatesUnready(s, stepTime) ==
    [fx |-> (IF s.removeOnNextFrame THEN <<Fx("remove", -1)>> ELSE <<>>)
            \o (IF ~s.ready
                THEN <<Fx("fillText", -1)>>
                ELSE (IF s.update THEN <<Fx("update", -1)>> ELSE <<>>)
                     \o <<Fx("drawImage", FrameShown(s))>>),
     sprite |-> IF s.animate
                THEN [s EXCEPT !.frameAnimationIndex =
                         DAdd(@, DDiv(stepTime, 1000 \div s.frameRate))]
                ELSE s]

\* draw() that calls remove() last.
SpriteDraw_RemovesLast(s, stepTime) ==
    [fx |-> (IF ~s.ready
             THEN <<Fx("fillText", -1)>>
             ELSE (IF s.update THEN <<Fx("update", -1)>> ELSE <<>>)
                  \o <<Fx("drawImage", FrameShown(s))>>)
            \o (IF s.removeOnNextFrame THEN <<Fx("remove", -1)>> ELSE <<>>),
     sprite |-> IF s.ready /\ s.animate
                THEN [s EXCEPT !.frameAnimationIndex =
                         DAdd(@, DDiv(stepTime, 1000 \div s.frameRate))]
                ELSE s]

\* draw(cfg): what it does, in order, and the sprite it leaves. The update
\* callback is user code; it is modelled as leaving the sprite alone.
SpriteDraw(s, stepTime) ==
    [fx |-> (IF s.removeOnNextFrame THEN <<Fx("remove", -1)>> ELSE <<>>)
            \o (IF ~s.ready
                THEN <<Fx("fillText", -1)>>
                ELSE (IF s.update THEN <<Fx("update", -1)>> ELSE <<>>)
                     \o <<Fx("drawImage", FrameShown(s))>>),
     sprite |-> IF s.ready /\ s.animate
                THEN [s EXCEPT !.frameAnimationIndex =
                         DAdd(@, DDiv(stepTime, 1000 \div s.frameRate))]
                ELSE s]

----------------------------------------------------------------------------
(* Sprite.copy. *)

\* The parameters the constructor destructures, of those modelled.
ConfigFields == {"frame", "frames", "animate", "frameSequence", "frameRate",
                 "repeat", "update"}

\* { ...a, ...b }: the properties of both, b's value where both have one.
Spread(a, b) ==
    [k \in DOMAIN a \cup DOMAIN b |-> IF k \in DOMAIN b THEN b[k] ELSE a[k]]

\* The own properties of a sprite, which { ...this } copies: its fields. The
\* frame getter lives on the prototype and is not one of them; frames is
\* undefined until the image has loaded.
OwnProperties(s) ==
    [ready |-> s.ready, frames |-> s.frames, animate |-> s.animate,
     frameRate |-> s.frameRate, frameAnimationIndex |-> s.frameAnimationIndex,
     frameSequence |-> s.frameSequence, update |-> s.update, repeat |-> s.repeat,
     removeOnNextFrame |-> s.removeOnNextFrame]

\* The constructor's destructuring of its argument: a parameter that is
\* missing takes its default; an undefined frames stays left out.
Destructure(params) ==
    [k \in ConfigFields |->
        IF k \notin DOMAIN params THEN DefaultSpriteConfig[k]
        ELSE IF k = "frames" /\ params[k] = NoFrames THEN 0
        ELSE params[k]]

\* copy(newParams): new Sprite({ ...this, ...newParams, src: this.image.src })
Copy(s, newParams) == NewSprite(Destructure(Spread(OwnProperties(s), newParams)))

\* The newParams a caller passes: some subsets of the config fields.
NewParams ==
    {[animate |-> FALSE],
     [repeat |-> FALSE, frameRate |-> 10],
     [frame |-> 1],
     [frames |-> 2, frameSequence |-> <<2, 0>>]}
    \cup {[k \in {} |-> 0]}

\* No copy has been made.
NoCopy == [made |-> FALSE]

----------------------------------------------------------------------------
\* The constructor's assignments other than the size.
EngineInit ==
    /\ drawings = <<>>
    /\ drawingMetadata = <<>>
    /\ isRunning = FALSE
    /\ animationFrameId = "undefined"
    /\ pending = 0
    /\ now = 0
    /\ tick = NoTick
    /\ call = NoCall
    /\ handlers = [t \in EventTypes \cup {"resize"} |-> <<>>]
    /\ ev = NoEvent
    /\ evlog = <<>>
    /\ listeners = [t \in EventTypes \cup {"resize"} |-> IF t \in EventTypes THEN 1 ELSE 0]
    /\ hIssued = [t \in EventTypes \cup {"resize"} |-> {}]
    /\ nAdds = 0
    /\ issued = {}
    /\ hist = [h \in 0 .. MaxLen - 1 |-> NoTime]
    /\ calls = 0
    /\ offTime = [h \in 0 .. MaxLen - 1 |-> 0]
    /\ stepSum = [h \in 0 .. MaxLen - 1 |-> 0]
    /\ gameState = "stopped"
    /\ observers = 0
    /\ roPending = 0
    /\ img = [loaded |-> FALSE, grid |-> GridFrames]
    /\ fx = <<>>
    /\ ms = 0
    /\ copy = NoCopy

\* A GameCanvas constructed with no config on a canvas with no size attributes.
Init ==
    /\ EngineInit
    /\ ctor = [done |-> TRUE, config |-> NoConfig, attrW |-> NoAttr, attrH |-> NoAttr]
    /\ autoresize = AutoresizeOf(NoConfig)
    /\ size = SetInitialCanvasSize(NoSize, PlainCanvas).size
    /\ canvas = SetInitialCanvasSize(NoSize, PlainCanvas).canvas
    /\ sprite = NewSprite(DefaultSpriteConfig)

\* The arguments of a constructor call that is about to run.
InitCtor ==
    /\ EngineInit
    /\ canvas \in Canvases
    /\ \E sz \in ConfigSizes, a \in {"undefined", "true", "false"} :
          ctor = [done |-> FALSE, config |-> [size |-> sz, autoresize |-> a],
                  attrW |-> canvas.attrW, attrH |-> canvas.attrH]
    /\ autoresize = FALSE
    /\ size = [width |-> 0, height |-> 0]
    /\ sprite = NewSprite(DefaultSpriteConfig)

\* A page that has constructed a GameCanvas, as in Init, and a Sprite from any
\* config.
InitSprite ==
    /\ EngineInit
    /\ ctor = [done |-> TRUE, config |-> NoConfig, attrW |-> NoAttr, attrH |-> NoAttr]
    /\ autoresize = AutoresizeOf(NoConfig)
    /\ size = SetInitialCanvasSize(NoSize, PlainCanvas).size
    /\ canvas = SetInitialCanvasSize(NoSize, PlainCanvas).canvas
    /\ \E cfg \in SpriteConfigs : sprite = NewSprite(cfg)

\* The same page with a sprite that has the default config.
InitSpriteLoop ==
    /\ EngineInit
    /\ ctor = [done |-> TRUE, config |-> NoConfig, attrW |-> NoAttr, attrH |-> NoAttr]
    /\ autoresize = AutoresizeOf(NoConfig)
    /\ size = SetInitialCanvasSize(NoSize, PlainCanvas).size
    /\ canvas = SetInitialCanvasSize(NoSize, PlainCanvas).canvas
    /\ sprite = NewSprite(DefaultSpriteConfig)

\* The constructor: autoresize, then setInitialCanvasSize(config.size).
Construct ==
    /\ ~ctor.done
    /\ ctor' = [ctor EXCEPT !.done = TRUE]
    /\ autoresize' = AutoresizeOf(ctor.config)
    /\ size' = SetInitialCanvasSize(ctor.config.size, canvas).size
    /\ canvas' = SetInitialCanvasSize(ctor.config.size, canvas).canvas
    /\ UNCHANGED <<observers, roPending>>
    /\ UNCHANGED drawVars
    /\ UNCHANGED eventVars
    /\ UNCHANGED spriteVars

----------------------------------------------------------------------------
(* The drawing registry. *)

AddDrawing(d) ==
    /\ UserCode
    /\ calls < MaxCalls
    /\ Len(drawings) < MaxLen
    /\ drawings' = Append(drawings, d)
    /\ drawingMetadata' = Append(drawingMetadata, EmptyMd)
    /\ nAdds' = nAdds + 1
    /\ issued' = issued \cup {Len(drawings') - 1}
    /\ UNCHANGED <<isRunning, animationFrameId, pending, now, tick, call, hist>>
    /\ calls' = calls + 1
    /\ UNCHANGED eventVars
    /\ UNCHANGED sizeVars
    /\ UNCHANGED spriteVars
    /\ UNCHANGED <<offTime, stepSum, gameState>>

RemoveDrawing(idx) ==
    /\ UserCode
    /\ calls < MaxCalls
    /\ drawingMetadata' =
          IF idx < Len(drawingMetadata)
          THEN [drawingMetadata EXCEPT ![idx + 1].off = TRUE]
          ELSE drawingMetadata
    /\ UNCHANGED <<drawings, isRunning, animationFrameId, pending, now, tick, call,
                   nAdds, issued, hist>>
    /\ calls' = calls + 1
    /\ UNCHANGED eventVars
    /\ UNCHANGED sizeVars
    /\ UNCHANGED spriteVars
    /\ UNCHANGED <<offTime, stepSum, gameState>>

\* this.drawingMetadata[idx].off = false: with no metadata at idx the left-hand
\* side is a property of undefined, and the assignment throws a TypeError.
RestoreDrawingThrows(idx) == idx >= Len(drawingMetadata)

\* restoreDrawing on an index with no metadata throws a TypeError before it
\* changes anything.
RestoreDrawing(idx) ==
    /\ UserCode
    /\ calls < MaxCalls
    /\ drawingMetadata' =
          IF idx < Len(drawingMetadata)
          THEN [drawingMetadata EXCEPT ![idx + 1].off = FALSE]
          ELSE drawingMetadata
    /\ UNCHANGED <<drawings, isRunning, animationFrameId, pending, now, tick, call,
                   nAdds, issued, hist>>
    /\ calls' = calls + 1
    /\ UNCHANGED eventVars
    /\ UNCHANGED sizeVars
    /\ UNCHANGED spriteVars
    /\ UNCHANGED <<offTime, stepSum, gameState>>

\* drawings[idx] = f on a JavaScript array: an index at or past the length
\* grows the array, leaving holes below it.
ArrayAssign(arr, idx, f) ==
    IF idx < Len(arr)
    THEN [arr EXCEPT ![idx + 1] = f]
    ELSE arr \o [i \in 1 .. idx - Len(arr) |-> Hole] \o <<f>>

ReplaceDrawing_ResetsClock(idx, f) ==
    /\ UserCode
    /\ calls < MaxCalls
    /\ drawings' = ArrayAssign(drawings, idx, f)
    /\ drawingMetadata' =
          IF idx < Len(drawingMetadata)
          THEN [drawingMetadata EXCEPT ![idx + 1] = EmptyMd]
          ELSE drawingMetadata
    /\ UNCHANGED <<isRunning, animationFrameId, pending, now, tick, call,
                   nAdds, issued, hist>>
    /\ calls' = calls + 1
    /\ UNCHANGED eventVars
    /\ UNCHANGED sizeVars
    /\ UNCHANGED spriteVars
    /\ UNCHANGED <<offTime, stepSum, gameState>>

ReplaceDrawing(idx, f) ==
    /\ UserCode
    /\ calls < MaxCalls
    /\ drawings' = ArrayAssign(drawings, idx, f)
    /\ UNCHANGED <<drawingMetadata, isRunning, animationFrameId, pending, now, tick,
                   call, nAdds, issued, hist>>
    /\ calls' = calls + 1
    /\ UNCHANGED eventVars
    /\ UNCHANGED sizeVars
    /\ UNCHANGED spriteVars
    /\ UNCHANGED <<offTime, stepSum, gameState>>

----------------------------------------------------------------------------
(* The loop. *)

\* The handles that hold a drawable and are not off.
NotOff ==
    {h \in 0 .. Len(drawings) - 1 :
        /\ At(drawings, h) # Hole
        /\ h < Len(drawingMetadata)
        /\ ~At(drawingMetadata, h).off}

\* log (the handles dispatched so far) and on0 (the handles that were not off
\* when the tick began) are history.
BeginTick(src) ==
    [active |-> TRUE, ts |-> now, len |-> Len(drawings), k |-> 0, incb |-> FALSE,
     src |-> src, log |-> <<>>, on0 |-> NotOff]

\* run(): sets the flag and calls tick() synchronously, with performance.now().
Run ==
    /\ ctor.done
    /\ ~tick.active
    /\ pending < MaxPending
    /\ IF autoresize /\ ~HasFixedSize
       THEN \* observeCanvasResize(), then the bitmap takes the on-screen size;
            \* a new observer is notified once of the size it starts with
            /\ observers < MaxObservers
            /\ observers' = observers + 1
            /\ roPending' = roPending + 1
            /\ canvas' = [canvas EXCEPT !.attrW = canvas.clientW,
                                        !.attrH = canvas.clientH]
       ELSE UNCHANGED <<observers, roPending, canvas>>
    /\ isRunning' = TRUE
    /\ tick' = BeginTick("run")
    /\ UNCHANGED <<drawings, drawingMetadata, animationFrameId, pending, now, call,
                   nAdds, issued, hist>>
    /\ calls < MaxCalls
    /\ calls' = calls + 1
    /\ UNCHANGED eventVars
    /\ UNCHANGED <<size, autoresize, ctor>>
    /\ UNCHANGED spriteVars
    /\ UNCHANGED <<offTime, stepSum, gameState>>

\* The host fires an outstanding animation-frame request: tick(ts).
FrameFire ==
    /\ ~tick.active
    /\ pending > 0
    /\ pending' = pending - 1
    /\ \E mine \in BOOLEAN :
          \* the request that fires is the one animationFrameId names, or another
          /\ mine => animationFrameId = "outstanding"
          /\ ~mine => pending > (IF animationFrameId = "outstanding" THEN 1 ELSE 0)
          /\ animationFrameId' = IF mine THEN "fired" ELSE animationFrameId
    /\ tick' = BeginTick(IF isRunning THEN "frame" ELSE "stale")
    /\ UNCHANGED <<drawings, drawingMetadata, isRunning, now, call, nAdds, issued, hist>>
    /\ UNCHANGED calls
    /\ UNCHANGED eventVars
    /\ UNCHANGED sizeVars
    /\ UNCHANGED spriteVars
    /\ UNCHANGED <<offTime, stepSum, gameState>>

\* One visit of doDrawing's forEach callback, up to the call of the drawable.
Visit ==
    /\ tick.active /\ ~tick.incb /\ tick.k < ForEachLength(tick.len, drawings)
    /\ LET idx == ForEachIndex(tick.k, tick.len)
           d   == At(drawings, idx)
       IN
       IF d = Hole
       THEN \* forEach skips an index that is not present
            /\ tick' = [tick EXCEPT !.k = @ + 1]
            /\ UNCHANGED <<drawingMetadata, call, hist, stepSum>>
       ELSE IF idx >= Len(drawingMetadata)
       THEN \* md is undefined: md.off throws, tick() is abandoned
            /\ tick' = NoTick
            /\ UNCHANGED <<drawingMetadata, call, hist, stepSum>>
       ELSE LET md == At(drawingMetadata, idx) IN
            IF md.off
            THEN /\ tick' = [tick EXCEPT !.k = @ + 1]
                 /\ UNCHANGED <<drawingMetadata, call, hist, stepSum>>
            ELSE /\ drawingMetadata' =
                      [drawingMetadata EXCEPT ![idx + 1] =
                          [@ EXCEPT !.lastTime = tick.ts,
                                    !.startTime = StartTimeOf(md, tick.ts)]]
                 /\ stepSum' = [stepSum EXCEPT
                                  ![idx] = @ + StepTimeOf(md, tick.ts)]
                 /\ hist' = IF hist[idx] = NoTime
                            THEN [hist EXCEPT ![idx] = tick.ts]
                            ELSE hist
                 /\ IF d \in Callable
                    THEN /\ call' = [h |-> idx, d |-> d, ts |-> tick.ts,
                                     elapsed |-> ElapsedOf(md, tick.ts),
                                     stepTime |-> StepTimeOf(md, tick.ts),
                                     first |-> hist[idx] = NoTime,
                                     stale |-> tick.src = "stale"]
                         /\ tick' = [tick EXCEPT !.incb = TRUE,
                                                 !.log = Append(@, idx)]
                    ELSE \* neither d.draw nor d is callable: TypeError
                         /\ tick' = NoTick
                         /\ UNCHANGED call
    /\ UNCHANGED <<drawings, isRunning, animationFrameId, pending, now, nAdds, issued>>
    /\ UNCHANGED calls
    /\ UNCHANGED eventVars
    /\ UNCHANGED sizeVars
    /\ UNCHANGED spriteVars
    /\ UNCHANGED <<offTime, gameState>>

\* The remove closure handed to the running callback.
RemoveClosure_AllOff ==
    /\ tick.active /\ tick.incb
    /\ calls < MaxCalls
    /\ drawingMetadata' =
          [i \in 1 .. Len(drawingMetadata) |->
              [drawingMetadata[i] EXCEPT !.off = TRUE]]
    /\ UNCHANGED <<drawings, isRunning, animationFrameId, pending, now, tick, call,
                   nAdds, issued, hist>>
    /\ calls' = calls + 1
    /\ UNCHANGED eventVars
    /\ UNCHANGED sizeVars
    /\ UNCHANGED spriteVars
    /\ UNCHANGED <<offTime, stepSum, gameState>>

RemoveClosure ==
    /\ tick.active /\ tick.incb
    /\ calls < MaxCalls
    /\ drawingMetadata' = [drawingMetadata EXCEPT ![call.h + 1].off = TRUE]
    /\ UNCHANGED <<drawings, isRunning, animationFrameId, pending, now, tick, call,
                   nAdds, issued, hist>>
    /\ calls' = calls + 1
    /\ UNCHANGED eventVars
    /\ UNCHANGED sizeVars
    /\ UNCHANGED spriteVars
    /\ UNCHANGED <<offTime, stepSum, gameState>>

\* The draw callback returns: forEach goes on to the next index.
CallbackReturn ==
    /\ tick.active /\ tick.incb
    /\ tick' = [tick EXCEPT !.incb = FALSE, !.k = @ + 1]
    /\ call' = NoCall
    /\ UNCHANGED <<drawings, drawingMetadata, isRunning, animationFrameId, pending,
                   now, nAdds, issued, hist>>
    /\ UNCHANGED calls
    /\ UNCHANGED eventVars
    /\ UNCHANGED sizeVars
    /\ UNCHANGED spriteVars
    /\ UNCHANGED <<offTime, stepSum, gameState>>

\* The draw callback throws: forEach, doDrawing and tick are abandoned.
CallbackThrow ==
    /\ tick.active /\ tick.incb
    /\ tick' = NoTick
    /\ call' = NoCall
    /\ UNCHANGED <<drawings, drawingMetadata, isRunning, animationFrameId, pending,
                   now, nAdds, issued, hist>>
    /\ UNCHANGED calls
    /\ UNCHANGED eventVars
    /\ UNCHANGED sizeVars
    /\ UNCHANGED spriteVars
    /\ UNCHANGED <<offTime, stepSum, gameState>>

\* doDrawing has returned: tick() requests the next frame while running.
TickReturns ==
    /\ tick.active /\ ~tick.incb /\ tick.k = ForEachLength(tick.len, drawings)
    /\ tick' = NoTick
    /\ IF isRunning
       THEN /\ animationFrameId' = "outstanding"
            /\ pending' = pending + 1
       ELSE UNCHANGED <<animationFrameId, pending>>
    /\ UNCHANGED <<drawings, drawingMetadata, isRunning, now, call, nAdds, issued, hist>>
    /\ UNCHANGED calls
    /\ UNCHANGED eventVars
    /\ UNCHANGED sizeVars
    /\ UNCHANGED spriteVars
    /\ UNCHANGED <<offTime, stepSum>>
\* tick() of a GameCanvas that is not a GameInterface, or one that no
\* GameInterface method is waiting for.
TickEnd == TickReturns /\ UNCHANGED gameState

\* GameInterface.run() and resume() are super.run() followed by
\* this.gameState = "running": the assignment is made when the tick() that
\* super.run() called has returned. An exception out of that tick leaves
\* run() before the assignment.
InterfaceTickEnd ==
    /\ TickReturns
    /\ gameState' = IF tick.src = "run" THEN "running" ELSE gameState

\* GameCanvas.stop().
SuperStop ==
    /\ UserCode
    /\ isRunning' = FALSE
    /\ IF animationFrameId # "undefined"
       THEN \* cancelling a request that has already fired does nothing
            /\ pending' = IF animationFrameId = "outstanding"
                          THEN pending - 1 ELSE pending
            /\ animationFrameId' = "undefined"
       ELSE UNCHANGED <<animationFrameId, pending>>
    /\ UNCHANGED <<drawings, drawingMetadata, now, tick, call, nAdds, issued, hist>>
    /\ calls < MaxCalls
    /\ calls' = calls + 1
    /\ UNCHANGED eventVars
    /\ UNCHANGED sizeVars
    /\ UNCHANGED spriteVars
    /\ UNCHANGED <<offTime, stepSum>>
Stop == SuperStop /\ UNCHANGED gameState

\* GameInterface.pause(): super.stop(), then this.gameState = "paused".
Pause == SuperStop /\ gameState' = "paused"

\* GameInterface.stop(), and reset(), which only calls it: super.stop(), then
\* this.gameState = "stopped".
InterfaceStop == SuperStop /\ gameState' = "stopped"

\* Time passes between host tasks.
Advance ==
    /\ ~tick.active
    /\ now < MaxTime
    /\ now' = now + 1
    /\ offTime' = [h \in 0 .. MaxLen - 1 |->
                      IF /\ h < Len(drawingMetadata)
                         /\ At(drawingMetadata, h).off
                         /\ hist[h] # NoTime
                      THEN offTime[h] + 1 ELSE offTime[h]]
    /\ UNCHANGED <<drawings, drawingMetadata, isRunning, animationFrameId, pending,
                   tick, call, nAdds, issued, hist, stepSum, gameState>>
    /\ UNCHANGED calls
    /\ UNCHANGED eventVars
    /\ UNCHANGED sizeVars
    /\ UNCHANGED spriteVars

----------------------------------------------------------------------------
(* Event handler chains. *)

\* Handler code is running: top-level script, or the body of the handler the
\* listener has just called.
HandlerCode == ~ev.active \/ ev.inh

\* How many handlers have been registered so far.
NumIssued == Cardinality(UNION {{<<t, i>> : i \in hIssued[t]} : t \in DOMAIN hIssued})

\* addHandler throws, changing nothing, for an event type with no chain or a
\* handler that is not a function.
AddHandler(eventType, h) ==
    /\ HandlerCode
    /\ eventType \in DOMAIN handlers
    /\ h \in HandlerFns
    /\ NumIssued < MaxHandlers
    /\ handlers' = [handlers EXCEPT ![eventType] = Append(@, h)]
    /\ hIssued' = [hIssued EXCEPT ![eventType] = @ \cup {Len(handlers'[eventType]) - 1}]
    /\ UNCHANGED <<ev, evlog, listeners>>
    /\ UNCHANGED drawVars
    /\ UNCHANGED sizeVars
    /\ UNCHANGED spriteVars

AddClickHandler(h) ==
    /\ HandlerCode
    /\ h \in HandlerFns
    /\ NumIssued < MaxHandlers
    /\ handlers' = [handlers EXCEPT !["click"] = Append(@, h)]
    /\ hIssued' = [hIssued EXCEPT !["click"] = @ \cup {Len(handlers'["click"]) - 1}]
    /\ UNCHANGED <<ev, evlog, listeners>>
    /\ UNCHANGED drawVars
    /\ UNCHANGED sizeVars
    /\ UNCHANGED spriteVars

RemoveHandler_Splices(eventType, idx) ==
    /\ HandlerCode
    /\ eventType \in DOMAIN handlers
    /\ handlers' = [handlers EXCEPT ![eventType] =
                      IF idx < Len(@)
                      THEN SubSeq(@, 1, idx) \o SubSeq(@, idx + 2, Len(@))
                      ELSE @]
    /\ UNCHANGED <<ev, evlog, listeners, hIssued>>
    /\ UNCHANGED drawVars
    /\ UNCHANGED sizeVars
    /\ UNCHANGED spriteVars

\* this.handlers[eventType][idx] = () => {}
RemoveHandler(eventType, idx) ==
    /\ HandlerCode
    /\ eventType \in DOMAIN handlers
    /\ handlers' = [handlers EXCEPT ![eventType] = ArrayAssign(@, idx, Noop)]
    /\ UNCHANGED <<ev, evlog, listeners, hIssued>>
    /\ UNCHANGED drawVars
    /\ UNCHANGED sizeVars
    /\ UNCHANGED spriteVars

\* The host delivers an event of a registered type to the canvas: the
\* listener setupHandlers added for that type is called.
Deliver(eventType) ==
    /\ ~ev.active
    /\ listeners[eventType] > 0
    /\ ev' = [active |-> TRUE, type |-> eventType, pos |-> 0, inh |-> FALSE,
              n0 |-> Len(handlers[eventType])]
    /\ evlog' = <<>>
    /\ UNCHANGED <<handlers, listeners, hIssued>>
    /\ UNCHANGED drawVars
    /\ UNCHANGED sizeVars
    /\ UNCHANGED spriteVars

\* One step of the listener's for...of: the array iterator reads the live
\* length, then the element, and the listener calls it.
HandlerVisit ==
    /\ ev.active /\ ~ev.inh
    /\ LET chain == handlers[ev.type] IN
       IF ev.pos >= Len(chain)
       THEN \* iterator done: the listener returns
            /\ ev' = NoEvent
            /\ UNCHANGED evlog
       ELSE IF At(chain, ev.pos) = Hole
       THEN \* a hole reads as undefined: calling it throws
            /\ ev' = NoEvent
            /\ UNCHANGED evlog
       ELSE /\ ev' = [ev EXCEPT !.inh = TRUE]
            /\ evlog' = Append(evlog, [type |-> ev.type, slot |-> ev.pos,
                                        h |-> At(chain, ev.pos),
                                        res |-> "running"])
    /\ UNCHANGED <<handlers, listeners, hIssued>>
    /\ UNCHANGED drawVars
    /\ UNCHANGED sizeVars
    /\ UNCHANGED spriteVars

\* The handler returns result; a truthy result ends the listener.
HandlerReturn_IgnoresResult(result) ==
    /\ ev.active /\ ev.inh
    /\ evlog[Len(evlog)].h = Noop => ~result
    /\ evlog' = [evlog EXCEPT ![Len(evlog)].res = IF result THEN "truthy" ELSE "falsy"]
    /\ ev' = [ev EXCEPT !.inh = FALSE, !.pos = @ + 1]
    /\ UNCHANGED <<handlers, listeners, hIssued>>
    /\ UNCHANGED drawVars
    /\ UNCHANGED sizeVars
    /\ UNCHANGED spriteVars

HandlerReturn(result) ==
    /\ ev.active /\ ev.inh
    /\ evlog[Len(evlog)].h = Noop => ~result
    /\ evlog' = [evlog EXCEPT ![Len(evlog)].res = IF result THEN "truthy" ELSE "falsy"]
    /\ ev' = IF result THEN NoEvent ELSE [ev EXCEPT !.inh = FALSE, !.pos = @ + 1]
    /\ UNCHANGED <<handlers, listeners, hIssued>>
    /\ UNCHANGED drawVars
    /\ UNCHANGED sizeVars
    /\ UNCHANGED spriteVars

----------------------------------------------------------------------------
(* Resizing. *)

\* A page script removes the canvas's width and height attributes.
StripSizeAttributes ==
    /\ ctor.done
    /\ ~tick.active /\ ~ev.active
    /\ HasFixedSize
    /\ canvas' = [canvas EXCEPT !.attrW = NoAttr, !.attrH = NoAttr]
    /\ UNCHANGED <<size, autoresize, observers, roPending, ctor>>
    /\ UNCHANGED drawVars
    /\ UNCHANGED eventVars
    /\ UNCHANGED spriteVars

\* The page layout gives the canvas a new on-screen size: every observer has
\* a notification to deliver.
ClientResize(w, h) ==
    /\ ctor.done
    /\ ~tick.active /\ ~ev.active
    /\ <<w, h>> # <<canvas.clientW, canvas.clientH>>
    /\ canvas' = [canvas EXCEPT !.clientW = w, !.clientH = h]
    /\ roPending' = observers
    /\ UNCHANGED <<size, autoresize, observers, ctor>>
    /\ UNCHANGED drawVars
    /\ UNCHANGED eventVars
    /\ UNCHANGED spriteVars

\* setCanvasSize(w, h)
SetCanvasSize(w, h) ==
    /\ size' = [width |-> w, height |-> h]
    /\ canvas' = [canvas EXCEPT !.attrW = w, !.attrH = h]

ObserverCallback_HandlersOnly ==
    /\ roPending > 0
    /\ ~tick.active /\ ~ev.active
    /\ roPending' = roPending - 1
    /\ UNCHANGED <<size, canvas>>
    /\ ev' = [active |-> TRUE, type |-> "resize", pos |-> 0, inh |-> FALSE,
              n0 |-> Len(handlers["resize"])]
    /\ evlog' = <<>>
    /\ UNCHANGED <<handlers, listeners, hIssued>>
    /\ UNCHANGED <<autoresize, observers, ctor>>
    /\ UNCHANGED drawVars
    /\ UNCHANGED spriteVars

\* The host delivers a ResizeObserver notification: the callback applies the
\* reported size when autoresize is on, then walks the resize chain with the
\* same loop as an input listener (HandlerVisit, HandlerReturn).
ObserverCallback ==
    /\ roPending > 0
    /\ ~tick.active /\ ~ev.active
    /\ roPending' = roPending - 1
    /\ IF autoresize
       THEN SetCanvasSize(ContentRect.width, ContentRect.height)
       ELSE UNCHANGED <<size, canvas>>
    /\ ev' = [active |-> TRUE, type |-> "resize", pos |-> 0, inh |-> FALSE,
              n0 |-> Len(handlers["resize"])]
    /\ evlog' = <<>>
    /\ UNCHANGED <<handlers, listeners, hIssued>>
    /\ UNCHANGED <<autoresize, observers, ctor>>
    /\ UNCHANGED drawVars
    /\ UNCHANGED spriteVars

\* A resize handler calls the setCanvasSize it was handed.
HandlerSetsCanvasSize(w, h) ==
    /\ ev.active /\ ev.inh /\ ev.type = "resize"
    /\ SetCanvasSize(w, h)
    /\ UNCHANGED <<autoresize, observers, roPending, ctor>>
    /\ UNCHANGED drawVars
    /\ UNCHANGED eventVars
    /\ UNCHANGED spriteVars

----------------------------------------------------------------------------
(* Sprites. *)

\* image.onload: the sheet has loaded.
ImageLoad ==
    /\ ~tick.active /\ ~ev.active
    /\ ~img.loaded
    /\ img' = [img EXCEPT !.loaded = TRUE]
    /\ sprite' = [sprite EXCEPT !.ready = TRUE,
                                !.frames = IF sprite.cfg.frames # 0
                                           THEN sprite.cfg.frames
                                           ELSE img.grid]
    /\ UNCHANGED <<fx, ms, copy>>
    /\ UNCHANGED drawVars
    /\ UNCHANGED eventVars
    /\ UNCHANGED sizeVars

\* Code outside the loop (top-level script, an event handler) flags the
\* sprite: sprite.removeOnNextFrame = true.
FlagRemove ==
    /\ ~tick.active
    /\ ~sprite.removeOnNextFrame
    /\ sprite' = [sprite EXCEPT !.removeOnNextFrame = TRUE]
    /\ UNCHANGED <<img, fx, ms, copy>>
    /\ UNCHANGED drawVars
    /\ UNCHANGED eventVars
    /\ UNCHANGED sizeVars

\* Top-level code calls sprite.draw(cfg) itself, with a stepTime of its
\* choosing and a remove that only records the call.
Draw(stepTime) ==
    /\ ~tick.active
    /\ ms + stepTime <= MaxMs
    /\ sprite' = SpriteDraw(sprite, stepTime).sprite
    /\ fx' = SpriteDraw(sprite, stepTime).fx
    /\ ms' = IF sprite.ready THEN ms + stepTime ELSE ms
    /\ UNCHANGED <<img, copy>>
    /\ UNCHANGED drawVars
    /\ UNCHANGED eventVars
    /\ UNCHANGED sizeVars

\* The drawable being dispatched is the sprite: doDrawing calls
\* sprite.draw(params), whose remove is the closure for the handle being
\* visited, and draw returns.
DrawDispatched ==
    /\ tick.active /\ tick.incb
    /\ call.d = "obj"
    /\ sprite' = SpriteDraw(sprite, call.stepTime).sprite
    /\ fx' = SpriteDraw(sprite, call.stepTime).fx
    /\ ms' = IF sprite.ready THEN ms + call.stepTime ELSE ms
    /\ drawingMetadata' =
          IF \E i \in 1 .. Len(fx') : fx'[i].op = "remove"
          THEN [drawingMetadata EXCEPT ![call.h + 1].off = TRUE]
          ELSE drawingMetadata
    /\ tick' = [tick EXCEPT !.incb = FALSE, !.k = @ + 1]
    /\ call' = NoCall
    /\ UNCHANGED <<drawings, isRunning, animationFrameId, pending, now, nAdds,
                   issued, hist, calls>>
    /\ UNCHANGED <<img, copy>>
    /\ UNCHANGED eventVars
    /\ UNCHANGED sizeVars
    /\ UNCHANGED <<offTime, stepSum, gameState>>

\* sprite.copy(newParams): a new Sprite, with a new Image of the same src.
CopySprite(newParams) ==
    /\ ~tick.active
    /\ copy' = [made |-> TRUE, sprite |-> Copy(sprite, newParams),
                img |-> [loaded |-> FALSE, grid |-> img.grid],
                newParams |-> newParams]
    /\ UNCHANGED <<sprite, img, fx, ms>>
    /\ UNCHANGED drawVars
    /\ UNCHANGED eventVars
    /\ UNCHANGED sizeVars

----------------------------------------------------------------------------
Next ==
    \/ \E d \in Drawables : AddDrawing(d)
    \/ \E idx \in 0 .. MaxLen : RestoreDrawing(idx)
    \/ \E idx \in 0 .. MaxLen : RemoveDrawing(idx)
    \/ \E idx \in 0 .. MaxLen - 1, f \in Drawables : ReplaceDrawing(idx, f)
    \/ Run
    \/ FrameFire
    \/ Visit
    \/ RemoveClosure
    \/ CallbackReturn
    \/ CallbackThrow
    \/ TickEnd
    \/ Stop
    \/ Advance

Spec == Init /\ [][Next]_vars

\* The loop under a fair host: a frame that was requested fires, and a tick
\* that has begun runs to its end (each visit is made, each draw callback
\* returns or throws).
SpecFair ==
    /\ Spec
    /\ WF_vars(FrameFire)
    /\ WF_vars(Visit)
    /\ WF_vars(CallbackReturn \/ CallbackThrow)
    /\ WF_vars(TickEnd)

\* A GameInterface and its loop. run() and resume() have the same body, and
\* begin as GameCanvas.run() does.
NextInterface ==
    \/ \E d \in Callable : AddDrawing(d)
    \/ Run
    \/ FrameFire
    \/ Visit
    \/ CallbackReturn
    \/ CallbackThrow
    \/ InterfaceTickEnd
    \/ Pause
    \/ InterfaceStop
    \/ Advance

SpecInterface == Init /\ [][NextInterface]_vars

\* The event side of a GameCanvas, whose state the drawing side never touches.
NextEvents ==
    \/ \E t \in EventTypes, h \in HandlerFns : AddHandler(t, h)
    \/ \E h \in HandlerFns : AddClickHandler(h)
    \/ \E t \in EventTypes, idx \in 0 .. MaxHandlers - 1 : RemoveHandler(t, idx)
    \/ \E t \in EventTypes : Deliver(t)
    \/ HandlerVisit
    \/ \E result \in BOOLEAN : HandlerReturn(result)

SpecEvents == Init /\ [][NextEvents]_vars

\* Construction from any config on any canvas, followed by run().
NextCtor ==
    \/ Construct
    \/ Run
    \/ TickEnd

SpecCtor == InitCtor /\ [][NextCtor]_vars

\* The resize side of a GameCanvas on a page that restyles the canvas. The
\* resize chain is filled by addResizeHandler, i.e. addHandler("resize", h);
\* the slots tell the registrations apart, so one function is registered.
NextSize ==
    \/ StripSizeAttributes
    \/ Run
    \/ TickEnd
    \/ \E w, h \in Sizes : ClientResize(w, h)
    \/ ObserverCallback
    \/ AddHandler("resize", "h1")
    \/ HandlerVisit
    \/ \E result \in BOOLEAN : HandlerReturn(result)
    \/ \E w, h \in Sizes : HandlerSetsCanvasSize(w, h)

SpecSize == Init /\ [][NextSize]_vars

\* A sprite drawn by the page's own code.
NextSprite ==
    \/ ImageLoad
    \/ FlagRemove
    \/ \E stepTime \in StepTimes : Draw(stepTime)

SpecSprite == InitSprite /\ [][NextSprite]_vars

\* A sprite drawn by the page's own code, and copied.
NextCopy ==
    \/ ImageLoad
    \/ FlagRemove
    \/ \E stepTime \in StepTimes : Draw(stepTime)
    \/ \E newParams \in NewParams : CopySprite(newParams)

SpecCopy == InitSprite /\ [][NextCopy]_vars

\* A sprite registered with addDrawing, once or more, and drawn by the loop.
NextSpriteLoop ==
    \/ AddDrawing("obj")
    \/ \E idx \in 0 .. MaxLen - 1 : RestoreDrawing(idx)
    \/ \E idx \in 0 .. MaxLen - 1 : RemoveDrawing(idx)
    \/ Run
    \/ FrameFire
    \/ Visit
    \/ DrawDispatched
    \/ TickEnd
    \/ Advance
    \/ ImageLoad
    \/ FlagRemove

SpecSpriteLoop == InitSpriteLoop /\ [][NextSpriteLoop]_vars

----------------------------------------------------------------------------
(* Handles. *)

\* C1: the k-th call of addDrawing (from 0) returns k, so after n calls the
\* handles issued are exactly 0 .. n-1, whatever removeDrawing,
\* restoreDrawing and replaceDrawing calls came between them.
C1_HandlesInInsertionOrder == issued = 0 .. nAdds - 1

----------------------------------------------------------------------------
(* Dispatch order and per-drawable clocks. *)

Dispatching == call.h >= 0

C4_ElapsedFromFirstDispatch ==
    (Dispatching /\ ~call.first) => call.elapsed = call.ts - hist[call.h]

\* C5: a step that changes which drawable an issued handle holds
\* (replaceDrawing) changes nothing else: not the metadata of any handle (off
\* flag, start and last-dispatch timestamps), not the other drawables, not
\* the length of the arrays nor the handles issued.
C5_ReplaceKeepsTimingState ==
    [][\A h \in issued :
          (h < Len(drawings) /\ At(drawings', h) # At(drawings, h)) =>
             /\ drawingMetadata' = drawingMetadata
             /\ Len(drawings') = Len(drawings)
             /\ \A g \in 0 .. Len(drawings) - 1 :
                   g # h => At(drawings', g) = At(drawings, g)
             /\ issued' = issued /\ nAdds' = nAdds /\ hist' = hist
             /\ tick' = tick /\ call' = call
      ]_vars

\* A drawable that is running with elapsed and stepTime accumulated has been
\* replaced at its own, issued, handle, and the handle's timestamps are
\* still those its dispatch left.
C5_Witness ==
    /\ Dispatching
    /\ call.h \in issued
    /\ call.elapsed > 0
    /\ call.stepTime > 0
    /\ At(drawings, call.h) \in Callable \ {call.d}
    /\ At(drawingMetadata, call.h).startTime = call.ts - call.elapsed
    /\ At(drawingMetadata, call.h).lastTime = call.ts

\* C7: a step inside a draw callback that turns the running drawable's own
\* off flag on (its remove closure) leaves the tick where it was, the
\* invocation running, every other handle's metadata and the handle's own
\* timestamps unchanged; and a handle whose off flag is on is not dispatched.
C7_RemoveClosureDeferred ==
    [][/\ (/\ tick.active /\ tick.incb
           /\ ~At(drawingMetadata, call.h).off
           /\ Len(drawingMetadata') = Len(drawingMetadata)
           /\ At(drawingMetadata', call.h).off)
          => /\ tick' = tick
             /\ call' = call
             /\ drawings' = drawings
             /\ drawingMetadata' =
                   [drawingMetadata EXCEPT ![call.h + 1].off = TRUE]
       /\ (~Dispatching /\ call'.h >= 0) => ~At(drawingMetadata, call'.h).off
      ]_vars

\* The running drawable has turned itself off while a later drawable, not
\* off, is still to be visited in this tick.
C7_Witness ==
    /\ tick.active /\ tick.incb
    /\ At(drawingMetadata, call.h).off
    /\ call.h + 1 < tick.len
    /\ call.h + 1 < Len(drawingMetadata)
    /\ ~At(drawingMetadata, call.h + 1).off
    /\ At(drawings, call.h + 1) \in Callable

\* C8: no drawable is dispatched by a tick that the host started while the
\* running flag was off (after stop(), before the next run()).
C8_NoDispatchAfterStop == Dispatching => ~call.stale

\* C9: a step in which addDrawing issues a handle registers a callable (a
\* function or an object with a draw method).
C9_AddDrawingRejectsNonDrawable ==
    [][nAdds' > nAdds => At(drawings', Len(drawings') - 1) \in Callable]_vars

\* C10: removeDrawing(idx) with an idx that addDrawing never issued changes
\* nothing.
C10_RemoveUnissuedIsNoOp ==
    [][\A idx \in 0 .. MaxLen :
          (idx \notin issued /\ RemoveDrawing(idx))
              => UNCHANGED <<drawings, drawingMetadata, isRunning, animationFrameId,
                             pending, now, tick, call, nAdds, issued, hist,
                             handlers, ev, evlog, listeners, hIssued>>]_vars

\* C11: restoreDrawing(h) with a handle addDrawing never issued does not throw
\* and changes nothing; with an issued handle it clears that handle's off flag
\* and changes nothing else.
C11_RestoreValidatesLikeRemove ==
    [][\A idx \in 0 .. MaxLen :
          RestoreDrawing(idx) =>
              /\ ~RestoreDrawingThrows(idx)
              /\ idx \in issued =>
                    drawingMetadata' = [drawingMetadata EXCEPT ![idx + 1].off = FALSE]
              /\ idx \notin issued => drawingMetadata' = drawingMetadata
              /\ UNCHANGED <<drawings, isRunning, animationFrameId, pending, now,
                             tick, call, nAdds, issued, hist, handlers, ev, evlog,
                             listeners, hIssued>>]_vars

----------------------------------------------------------------------------
(* Event dispatch. *)

\* C6: the handlers invoked for one event are slots 0, 1, 2, ... of its
\* chain in that order, and every handler but the last one invoked returned
\* a falsy value: once a handler returns truthy the listener has ended.
C6_ChainStopsAtFirstClaim ==
    /\ \A i \in 1 .. Len(evlog) :
          /\ evlog[i].slot = i - 1
          /\ i < Len(evlog) => evlog[i].res = "falsy"
    /\ (evlog # <<>> /\ evlog[Len(evlog)].res = "truthy") => ~ev.active

\* The first of two registered handlers claimed the event and the listener
\* ended without invoking the second.
C6_Witness ==
    /\ ~ev.active
    /\ Len(evlog) = 1
    /\ evlog[1].res = "truthy"
    /\ Len(handlers[evlog[1].type]) = 2
    /\ At(handlers[evlog[1].type], 1) \in HandlerFns

C16_OneListenerPerKind ==
    [][/\ \A t \in EventTypes : listeners[t] = 1 /\ listeners'[t] = 1
       /\ \A i, j \in 1 .. Len(evlog') : i < j => evlog'[i].slot # evlog'[j].slot
       /\ (ev.active /\ ~ev'.active /\ \A i \in 1 .. Len(evlog') : evlog'[i].res = "falsy") =>
              \A k \in 0 .. Len(handlers'[ev.type]) - 1 :
                  At(handlers'[ev.type], k) \in HandlerFns =>
                      \E i \in 1 .. Len(evlog') : evlog'[i].slot = k]_vars

----------------------------------------------------------------------------
(* Sizing. *)

\* C13: the constructor leaves getSize() equal, for width and height alike, to
\* the config's size if one was supplied, else to the width / height attribute
\* set on the canvas, else to the canvas's on-screen client size.
C13_SizePrecedence ==
    [][(~ctor.done /\ ctor'.done) =>
          GetSize' =
              [width  |-> IF ctor.config.size.given THEN ctor.config.size.width
                          ELSE IF canvas.attrW # NoAttr THEN canvas.attrW
                          ELSE canvas.clientW,
               height |-> IF ctor.config.size.given THEN ctor.config.size.height
                          ELSE IF canvas.attrH # NoAttr THEN canvas.attrH
                          ELSE canvas.clientH]]_vars

\* C14: a GameCanvas constructed with autoresize on, no size in its config
\* and no width / height attribute on its canvas has a size observer attached
\* once run() has been called.
C14_RunAttachesObserver ==
    (/\ ctor.done
     /\ AutoresizeOf(ctor.config)
     /\ ~ctor.config.size.given
     /\ ctor.attrW = NoAttr /\ ctor.attrH = NoAttr
     /\ isRunning)
        => observers > 0

\* C15: when a size notification is delivered with autoresize on, getSize()
\* is the reported size from the start of the callback up to the call of the
\* first resize handler; the resize handlers are invoked in slot order, and
\* one that returns a truthy value is the last one invoked.
C15_ResizeAppliedThenHandlers ==
    [][/\ (autoresize /\ ~ev.active /\ ev'.active /\ ev'.type = "resize")
              => GetSize' = ContentRect'
       /\ (autoresize /\ ev.type = "resize" /\ evlog = <<>> /\ Len(evlog') = 1)
              => GetSize = ContentRect /\ GetSize' = ContentRect'
       /\ \A i \in 1 .. Len(evlog') :
              evlog'[i].type = "resize" =>
                  /\ evlog'[i].slot = i - 1
                  /\ At(handlers["resize"], i - 1) = evlog'[i].h
                  /\ i < Len(evlog') => evlog'[i].res = "falsy"
       /\ (ev.type = "resize" /\ ev.inh
             /\ evlog'[Len(evlog')].res = "truthy") => ~ev'.active]_vars

\* The canvas was laid out at a new size; the observer applied it, the first
\* of two resize handlers claimed the notification, and the second was not
\* invoked.
C15_Witness ==
    /\ ~ev.active
    /\ observers = 1
    /\ Len(evlog) = 1
    /\ evlog[1].type = "resize"
    /\ evlog[1].res = "truthy"
    /\ Len(handlers["resize"]) = 2
    /\ GetSize = ContentRect
    /\ GetSize = [width |-> 2, height |-> 0]

----------------------------------------------------------------------------
(* Sprite animation. *)

\* C17: a ready sprite with repeat true shows frameSequence[floor(cursor) mod
\* frameSequence.length] when it has a frame sequence and frame floor(cursor)
\* mod frames otherwise; and with frameSequence [0, 1, 2], frameRate 10 and a
\* cursor started at 0, once the stepTimes of its draws sum to 300 ms the
\* cursor is exactly 3 and the sprite shows the frame at sequence index 0,
\* however the 300 ms were split into steps.
C17_RepeatFrameAndExactAdvance ==
    (sprite.ready /\ sprite.repeat) =>
       /\ FrameShown(sprite) =
             IF sprite.frameSequence # NoSequence
             THEN At(sprite.frameSequence,
                     DFloor(sprite.frameAnimationIndex) % Len(sprite.frameSequence))
             ELSE DFloor(sprite.frameAnimationIndex) % sprite.frames
       /\ (/\ sprite.frameSequence = <<0, 1, 2>>
           /\ sprite.frameRate = 10
           /\ sprite.animate
           /\ sprite.cfg.frame = 0
           /\ ms = 300)
          => /\ sprite.frameAnimationIndex = DFromInt(3)
             /\ FrameShown(sprite) = At(sprite.frameSequence, 0)

\* The index, in the frame sequence or on the sheet, of the last frame.
LastIndex(s) ==
    IF s.frameSequence # NoSequence THEN Len(s.frameSequence) - 1 ELSE s.frames - 1

\* The frames a sprite may show: those of its sequence, or of its sheet.
ValidFrames(s) ==
    IF s.frameSequence # NoSequence
    THEN {s.frameSequence[i] : i \in 1 .. Len(s.frameSequence)}
    ELSE 0 .. s.frames - 1

\* C18: a ready sprite with repeat false shows the frame at index
\* min(floor(cursor), last index) of its sequence (or of its sheet): always a
\* valid index, and the last one once the cursor has passed the end; and
\* every frame its draws hand to drawImage is a valid one.
C18_NoRepeatClampsToLast ==
    (sprite.ready /\ ~sprite.repeat) =>
       LET k == Min(DFloor(sprite.frameAnimationIndex), LastIndex(sprite)) IN
       /\ k \in 0 .. LastIndex(sprite)
       /\ DFloor(sprite.frameAnimationIndex) > LastIndex(sprite) => k = LastIndex(sprite)
       /\ FrameShown(sprite) =
             IF sprite.frameSequence # NoSequence THEN At(sprite.frameSequence, k) ELSE k
       /\ \A i \in 1 .. Len(fx) :
             fx[i].op = "drawImage" => fx[i].frame \in ValidFrames(sprite)

\* A sprite with repeat false and a sequence of three frames, whose cursor
\* was past the end of the sequence at its latest draw, which drew the last
\* frame of the sequence, and is further past it now.
C18_Witness ==
    /\ sprite.ready /\ ~sprite.repeat
    /\ sprite.frameSequence = <<0, 1, 2>>
    /\ DFloor(sprite.frameAnimationIndex) >= 5
    /\ ms = 300
    /\ fx = <<Fx("drawImage", 2)>>

----------------------------------------------------------------------------
(* Sprite loading. *)

\* C19: ready is false after construction and is true exactly when the image
\* has loaded: a step turns it on only by completing the load, and no step
\* turns it off. A draw() made while ready is false, whenever it is made,
\* calls fillText for the placeholder (after remove(), when the sprite is
\* flagged) and nothing else: not update, not drawImage; it returns, and it
\* leaves the sprite, cursor included, as it was.
C19_ReadyOnlyByLoad ==
    /\ ~sprite.ready
    /\ [](sprite.ready <=> img.loaded)
    /\ [][/\ sprite.ready => sprite'.ready
          /\ (~sprite.ready /\ sprite'.ready) => (~img.loaded /\ img'.loaded)
          /\ \A stepTime \in StepTimes :
                (~sprite.ready /\ Draw(stepTime)) =>
                   /\ sprite' = sprite
                   /\ fx' = (IF sprite.removeOnNextFrame
                             THEN <<Fx("remove", -1)>> ELSE <<>>)
                            \o <<Fx("fillText", -1)>>
         ]_vars

\* A sprite that animates and has an update callback has been drawn before
\* its image loaded.
C19_Witness ==
    /\ ~sprite.ready
    /\ sprite.animate /\ sprite.update
    /\ fx = <<Fx("fillText", -1)>>

----------------------------------------------------------------------------
(* Sprite removal. *)

\* C20: when the loop dispatches a registered sprite whose removeOnNextFrame
\* flag is set, draw() calls remove() first and goes on to draw in that tick,
\* and the handle it was dispatched for is off when draw() returns; a handle
\* that is off is not dispatched; and a handle that is off stays off in
\* every step but a restoreDrawing call on it.
C20_FlaggedSpriteRemovesItself ==
    [][/\ (DrawDispatched /\ sprite.removeOnNextFrame) =>
             /\ Len(fx') >= 2
             /\ Head(fx') = Fx("remove", -1)
             /\ \A i \in 2 .. Len(fx') : fx'[i].op # "remove"
             /\ drawingMetadata' = [drawingMetadata EXCEPT ![call.h + 1].off = TRUE]
       /\ (~Dispatching /\ call'.h >= 0) => ~At(drawingMetadata, call'.h).off
       /\ \A h \in 0 .. Len(drawingMetadata) - 1 :
             (At(drawingMetadata, h).off /\ ~At(drawingMetadata', h).off)
                => RestoreDrawing(h)
      ]_vars

\* A later frame of the loop has passed over the handle of a flagged sprite,
\* which the sprite's own remove() turned off in an earlier tick: the only
\* calls the program has made are one addDrawing and one run.
C20_Witness ==
    /\ sprite.removeOnNextFrame
    /\ Len(fx) >= 2 /\ Head(fx) = Fx("remove", -1)
    /\ Len(drawingMetadata) = 1
    /\ At(drawingMetadata, 0).off
    /\ At(drawingMetadata, 0).lastTime # NoTime
    /\ calls = 2 /\ isRunning
    /\ tick.active /\ tick.k >= 1 /\ tick.log = <<>>
    /\ tick.ts > At(drawingMetadata, 0).lastTime

----------------------------------------------------------------------------
(* Sprite copies. *)

\* C21: a step in which sprite.copy(newParams) returns leaves the original
\* sprite and its image as they were, and returns a sprite that is not
\* ready, on a new image of the same sheet that has not loaded, built from a
\* config in which every field named in newParams has the value given there
\* and every other field has the value the original was built with.
C21_CopyOverridesOnlyNamedFields ==
    [][\A newParams \in NewParams :
          CopySprite(newParams) =>
             /\ sprite' = sprite /\ img' = img
             /\ ~copy'.sprite.ready
             /\ ~copy'.img.loaded /\ copy'.img.grid = img.grid
             /\ \A k \in ConfigFields :
                   copy'.sprite.cfg[k] =
                      IF k \in DOMAIN newParams THEN newParams[k] ELSE sprite.cfg[k]
      ]_vars

----------------------------------------------------------------------------
(* Clocks of a drawable that is switched off and on. *)

\* C22: while a handle is off, no step dispatches it and no step changes
\* its start and last-dispatch timestamps; and the elapsed value a dispatch
\* passes leaves out the time the handle has spent off since its first
\* dispatch: it is the time since the first dispatch less the time spent
\* off. (Stated for handles first dispatched at a timestamp past 0.)
C22_OffFreezesClocks ==
    /\ []((Dispatching /\ hist[call.h] > 0) =>
             call.elapsed = call.ts - hist[call.h] - offTime[call.h])
    /\ [][\A h \in 0 .. Len(drawingMetadata) - 1 :
             At(drawingMetadata, h).off =>
                /\ At(drawingMetadata', h).startTime = At(drawingMetadata, h).startTime
                /\ At(drawingMetadata', h).lastTime = At(drawingMetadata, h).lastTime
                /\ ~(call.h # h /\ call'.h = h)
         ]_vars

----------------------------------------------------------------------------
(* Liveness of the loop. *)

\* C23: a step that ends a tick while the running flag is set leaves exactly
\* one more animation-frame request with the host, the one animationFrameId
\* names; and, under a fair host, whenever the running flag is set and no
\* tick is in progress, a tick begins later or the flag is cleared (stop()).
C23_LoopStaysAlive ==
    /\ [][(tick.active /\ ~tick'.active /\ isRunning') =>
             (pending' = pending + 1 /\ animationFrameId' = "outstanding")]_vars
    /\ []((isRunning /\ ~tick.active) => <>(tick.active \/ ~isRunning))

----------------------------------------------------------------------------
(* The two clocks of a drawable agree. *)

----------------------------------------------------------------------------
(* The drawable sequence and the state sequence, side by side. *)

\* C25: whatever addDrawing, removeDrawing, restoreDrawing and replaceDrawing
\* calls were made, with whatever numeric handles, this.drawings and
\* this.drawingMetadata have the same length and every index of one is
\* present in the other: no drawable is without a state record, and no
\* index of this.drawings below its length was left unassigned.
C25_DrawablesAndStateAligned ==
    /\ Len(drawings) = Len(drawingMetadata)
    /\ \A i \in 0 .. Len(drawings) - 1 : At(drawings, i) # Hole

----------------------------------------------------------------------------
(* GameInterface: run, pause, resume, stop, reset. *)

\* C26: whatever run(), stop(), pause() and resume() calls were made, run()
\* or resume() on a running game included, the host holds at most one
\* animation-frame request of the game at any time.
C26_AtMostOneRequestPending ==
    pending <= 1

\* A call of run(), pause(), resume(), stop() or reset() returns.
InterfaceCallCompletes ==
    \/ InterfaceTickEnd /\ tick.src = "run"
    \/ Pause
    \/ InterfaceStop

\* C27: when a call of GameInterface.run(), pause(), resume(), stop() or
\* reset() has returned, getGameState() is "running" exactly when
\* getIsRunning() is true, also when a draw callback dispatched during the
\* call made another of these calls.
C27_GameStateMatchesIsRunning ==
    [][InterfaceCallCompletes => ((gameState' = "running") <=> isRunning')]_vars

----------------------------------------------------------------------------
(* Drawables registered while a tick is in progress. *)

----------------------------------------------------------------------------
(* Handlers registered while an event is being dispatched. *)

\* C29: the handlers invoked for one event are among those that were in the
\* chain of its type when the event arrived (slots below the length the
\* chain had then, ev.n0), each at most once, so the dispatch makes at most
\* that many calls and ends, also when a handler calls addHandler for the
\* same type during the dispatch.
C29_OnlyHandlersPresentAtArrival ==
    ev.active =>
       /\ Len(evlog) <= ev.n0
       /\ \A i \in 1 .. Len(evlog) : evlog[i].slot < ev.n0
       /\ \A i, j \in 1 .. Len(evlog) : i < j => evlog[i].slot < evlog[j].slot

----------------------------------------------------------------------------
(* removeDrawing and restoreDrawing from a draw callback. *)

\* C30: whatever removeDrawing and restoreDrawing calls the draw callbacks
\* of a tick make, the handles dispatched in the tick are handles that were
\* not off when the tick began, and when doDrawing has visited every index
\* all of those have been dispatched.
C30_DispatchSetFixedAtTickStart ==
    tick.active =>
       /\ \A j \in 1 .. Len(tick.log) : tick.log[j] \in tick.on0
       /\ (~tick.incb /\ tick.k = tick.len) =>
             \A h \in tick.on0 : \E j \in 1 .. Len(tick.log) : tick.log[j] = h

====
